---- MODULE Spec2Model ----
(***************************************************************************)
(* Model of the pulse-sequence engine of the NMR spectrometer package      *)
(* (software/spectrometer/spectrometer/pulse.py): the NMRSequence           *)
(* validator and its constructors, sequence equality, and the translation  *)
(* of a sequence into channel event lists by Spectrometer.send_sequence.   *)
(*                                                                         *)
(* Timestamps are microseconds, modelled as integers.  A power level is a  *)
(* complex number, modelled as a pair <<re, im>> of integers.  Arrays are  *)
(* sequences.  The array objects a caller passes to the NMRSequence        *)
(* constructor live in `arr`; the sequence object `seq` holds references   *)
(* (the names of the cells of `arr`), as the Python object does.           *)
(***************************************************************************)
EXTENDS Integers, Sequences, FiniteSets, TLC

VARIABLES
    call,   \* the call the client program makes, with its arguments
    arr,    \* the array objects handed to / created for the constructor
    seq,    \* the NMRSequence object the call returned, or NoSeq
    err,    \* "none" before the call, then "ok" or the error that was raised
    other,  \* the arrays of a second NMRSequence object (for ==)
    eqres,  \* the value of seq == other, "none" before the comparison
    socket, \* Spectrometer.socket: "None", or a socket that is "open" or "closed"
    flo,    \* the channel event lists last handed to the experiment, or NoFlo
    ret,    \* what the last call of a value constructor or helper returned, or NoRet
    log,    \* what the execution backend and the board were asked to do, in order
    board,  \* the board: the marcos_server processes on it and the installed binary
    files   \* the file system: the names that exist, each with its content

vars == <<call, arr, seq, err, other, eqres, socket, flo, ret, log, board, files>>

-----------------------------------------------------------------------------
(* Bounds of the explored inputs *)

MaxT == 3        \* raw timestamps are drawn from -1..MaxT
MaxLen == 2      \* raw arrays have at most MaxLen entries

-----------------------------------------------------------------------------
(* Complex power levels *)

Zero == <<0, 0>>
One == <<1, 0>>
ImagUnit == <<0, 1>>

\* enumerated raw inputs; power levels with a phase come with the fixtures
TimeVals == (-1)..MaxT
PowerVals == {Zero, One}

SeqsUpTo(S, n) == UNION {[1..k -> S] : k \in 0..n}

-----------------------------------------------------------------------------
(* numpy helpers used by the validator *)

\* np.any(a < 0)
AnyNegative(a) == \E i \in 1..Len(a) : a[i] < 0

\* a validator that lets repeated timestamps through (>= instead of >)
AllDiffNonNegative(a) == \A i \in 1..(Len(a) - 1) : a[i + 1] - a[i] >= 0

\* np.all(np.diff(a) > 0)
AllDiffPositive(a) == \A i \in 1..(Len(a) - 1) : a[i + 1] - a[i] > 0

\* the members of a set of indexes in increasing order (np.nonzero(mask)[0])
Nonzero(S) ==
    [k \in 1..Cardinality(S) |->
        CHOOSE x \in S : Cardinality({y \in S : y < x}) = k - 1]

\* a[idx]: fancy indexing with an index array
Take(a, idx) == [k \in 1..Len(idx) |-> a[idx[k]]]

\* tx_p = np.concatenate(([0], powers))
PrependZero(powers) == <<Zero>> \o powers

\* a scan for pulse starts without the 0 put in front
PulseStartIdxBare(powers) ==
    Nonzero({i \in 2..Len(powers) : powers[i - 1] = Zero /\ powers[i] # Zero})

\* np.nonzero((tx_p[:-1] == 0) & (tx_p[1:] != 0))[0], as 1-based indexes
PulseStartIdx(powers) ==
    LET tx_p == PrependZero(powers)
    IN  Nonzero({i \in 1..Len(powers) : tx_p[i] = Zero /\ tx_p[i + 1] # Zero})

\* np.nonzero((tx_p[:-1] != 0) & (tx_p[1:] == 0))[0], as 1-based indexes
PulseEndIdx(powers) ==
    LET tx_p == PrependZero(powers)
    IN  Nonzero({i \in 1..Len(powers) : tx_p[i] # Zero /\ tx_p[i + 1] = Zero})

\* rx_sequence[::2] and rx_sequence[1::2]
RecordStarts(rx) == [k \in 1..((Len(rx) + 1) \div 2) |-> rx[2 * k - 1]]
RecordEnds(rx) == [k \in 1..(Len(rx) \div 2) |-> rx[2 * k]]

-----------------------------------------------------------------------------
(* NMRSequence.__init__: the validator *)

\* the buffer of 1 us the overlap check requires between transmit and receive
GuardUs == 1

\* an overlap check without the 1 us buffer
OverlapNoGuard(pulse_starts, pulse_ends, record_starts, record_ends) ==
    \E r \in 1..Len(record_ends) : \E p \in 1..Len(pulse_starts) :
        /\ pulse_starts[p] < record_ends[r]
        /\ pulse_ends[p] > record_starts[r]

\* an overlap check that also refuses a gap of exactly GuardUs
OverlapInclusive(pulse_starts, pulse_ends, record_starts, record_ends) ==
    \E r \in 1..Len(record_ends) : \E p \in 1..Len(pulse_starts) :
        /\ pulse_starts[p] <= record_ends[r] + GuardUs
        /\ pulse_ends[p] + GuardUs >= record_starts[r]

\* an overlap check that looks at one side only
OverlapOneSided(pulse_starts, pulse_ends, record_starts, record_ends) ==
    \E r \in 1..Len(record_ends) : \E p \in 1..Len(pulse_starts) :
        pulse_starts[p] < record_ends[r] + GuardUs

\* the broadcast comparison: some pulse window and some receive window are
\* closer than GuardUs
Overlap(pulse_starts, pulse_ends, record_starts, record_ends) ==
    \E r \in 1..Len(record_ends) : \E p \in 1..Len(pulse_starts) :
        /\ pulse_starts[p] < record_ends[r] + GuardUs
        /\ pulse_ends[p] + GuardUs > record_starts[r]

PulseStarts(tx_t, tx_p) == Take(tx_t, PulseStartIdx(tx_p))
PulseEnds(tx_t, tx_p) == Take(tx_t, PulseEndIdx(tx_p))

\* The checks of the constructor in the order of the code; the value is "ok"
\* or the name of the first check that raises ValueError.  `imag` says that
\* some TX timestamp has a nonzero imaginary part (np.iscomplex).
LengthCheck(tx_t, tx_p) == Len(tx_t) # Len(tx_p)
TxNegativeCheck(tx_t) == AnyNegative(tx_t)
TxMonotonicCheck(tx_t) == ~AllDiffPositive(tx_t)
\* a check that looks at the first power level instead of the last
FirstPowerCheck(tx_p) == Len(tx_p) > 0 /\ tx_p[1] # Zero
LastPowerCheck(tx_p) == Len(tx_p) > 0 /\ tx_p[Len(tx_p)] # Zero
RxNegativeCheck(rx) == AnyNegative(rx)
RxMonotonicCheck(rx) == ~AllDiffPositive(rx)
\* a parity check with the remainder inverted
RxOddCheck(rx) == Len(rx) % 2 # 1
RxEvenCheck(rx) == Len(rx) % 2 # 0
OverlapCheck(tx_t, tx_p, rx) ==
    Overlap(PulseStarts(tx_t, tx_p), PulseEnds(tx_t, tx_p),
            RecordStarts(rx), RecordEnds(rx))

Validate(tx_t, tx_p, rx, imag) ==
    IF LengthCheck(tx_t, tx_p) THEN "length"
    ELSE IF imag THEN "complex_time"
    ELSE IF TxNegativeCheck(tx_t) THEN "tx_negative"
    ELSE IF TxMonotonicCheck(tx_t) THEN "tx_monotonic"
    ELSE IF LastPowerCheck(tx_p) THEN "last_power"
    ELSE IF RxNegativeCheck(rx) THEN "rx_negative"
    ELSE IF RxMonotonicCheck(rx) THEN "rx_monotonic"
    ELSE IF RxEvenCheck(rx) THEN "rx_odd"
    ELSE IF OverlapCheck(tx_t, tx_p, rx) THEN "simultaneously"
    ELSE "ok"

-----------------------------------------------------------------------------
(* The sequence object and the arrays it refers to *)

NoSeq == [tx_sequence |-> <<>>, rx_sequence |-> "none"]

\* self.tx_sequence = tx_sequence; self.rx_sequence = rx_sequence: the object
\* keeps the caller's array objects, it does not copy them
Stored == [tx_sequence |-> <<"tx_t", "tx_p">>, rx_sequence |-> "rx"]

NoArrays == [tx_t |-> <<>>, tx_p |-> <<>>, rx |-> <<>>, imag |-> FALSE]

NoFlo == [tx0 |-> <<>>, tx_gate |-> <<>>, rx0_en |-> <<>>, rx_gate |-> <<>>]

\* no value constructor or helper has returned yet
NoRet == [kind |-> "none", value |-> <<>>]

\* a board on which nothing has been installed, flashed or started
NoBoard ==
    [processes |-> 0, installed |-> FALSE, image |-> "redpitaya",
     bitstream |-> "none", overlay |-> FALSE]

\* nothing has been asked of the backend or the board, and no file exists
Untouched == log = <<>> /\ board = NoBoard /\ files = {}

\* a Spectrometer object after __init__, before any call on it
NewSpectrometer == socket = "None" /\ flo = NoFlo

\* the contents of the arrays of a sequence object
TxTimes(s) == arr[s.tx_sequence[1]]
TxPowers(s) == arr[s.tx_sequence[2]]
RxTimes(s) == arr[s.rx_sequence]

-----------------------------------------------------------------------------
(* Inputs *)

\* the arrays of tests/test_sequence.py::test_sequence_parsing
ParsingOk ==
    [tx_t |-> <<1, 5, 7, 9, 10, 15>>,
     tx_p |-> <<One, Zero, Zero, One, ImagUnit, Zero>>,
     rx |-> <<6, 8, 16, 20>>, imag |-> FALSE]
ParsingOverlap ==
    [tx_t |-> <<1, 5>>, tx_p |-> <<One, Zero>>, rx |-> <<5, 10>>, imag |-> FALSE]

Fixtures == {ParsingOk, ParsingOverlap}

\* a pulse of twice the full power, as a client can write it in raw arrays
Overdriven ==
    [tx_t |-> <<0, 1>>, tx_p |-> <<<<2, 0>>, Zero>>, rx |-> <<>>, imag |-> FALSE]

\* every power array of up to MaxLen + 2 levels out of 0, 1 and 1j, at the
\* timestamps 1, 2, ...
PowerPatterns ==
    {[tx_t |-> [k \in 1..Len(tx_p) |-> k], tx_p |-> tx_p, rx |-> <<>>, imag |-> FALSE] :
        tx_p \in SeqsUpTo({Zero, One, ImagUnit}, MaxLen + 2)}

RawInputs ==
    Fixtures \cup {Overdriven} \cup PowerPatterns \cup
    [tx_t : SeqsUpTo(TimeVals, MaxLen), tx_p : SeqsUpTo(PowerVals, MaxLen),
     rx : SeqsUpTo(TimeVals, MaxLen), imag : BOOLEAN]

-----------------------------------------------------------------------------
(* Actions *)

\* The client program has made its arrays and is about to call the constructor
Init ==
    /\ call = [fn |-> "NMRSequence", returned |-> FALSE]
    /\ arr \in RawInputs
    /\ seq = NoSeq
    /\ err = "none"
    /\ other = NoArrays
    /\ eqres = "none"
    /\ NewSpectrometer
    /\ ret = NoRet
    /\ Untouched

\* s = NMRSequence((tx_t, tx_p), rx) on the arrays the caller made
NewSequence ==
    /\ call = [fn |-> "NMRSequence", returned |-> FALSE]
    /\ LET r == Validate(arr.tx_t, arr.tx_p, arr.rx, arr.imag)
       IN  /\ err' = r
           /\ seq' = IF r = "ok" THEN Stored ELSE NoSeq
    /\ call' = [call EXCEPT !.returned = TRUE]
    /\ UNCHANGED <<arr, other, eqres, socket, flo, ret, log, board, files>>

\* the caller writes to an array it passed to the constructor, once the
\* constructor has returned a sequence: a[i] = v
MutateTimes ==
    /\ call = [fn |-> "NMRSequence", returned |-> TRUE]
    /\ seq # NoSeq
    /\ \E name \in {"tx_t", "rx"} : \E i \in 1..Len(arr[name]) : \E v \in TimeVals :
            arr' = [arr EXCEPT ![name][i] = v]
    /\ call' = [fn |-> "setitem", returned |-> TRUE]
    /\ UNCHANGED <<seq, err, other, eqres, socket, flo, ret, log, board, files>>

MutatePowers ==
    /\ call = [fn |-> "NMRSequence", returned |-> TRUE]
    /\ seq # NoSeq
    /\ \E i \in 1..Len(arr.tx_p) : \E v \in PowerVals :
            arr' = [arr EXCEPT !.tx_p[i] = v]
    /\ call' = [fn |-> "setitem", returned |-> TRUE]
    /\ UNCHANGED <<seq, err, other, eqres, socket, flo, ret, log, board, files>>

Next == NewSequence \/ MutateTimes \/ MutatePowers

Spec == Init /\ [][Next]_vars

-----------------------------------------------------------------------------
(* Claims about the constructor *)

\* the constructor has just returned or raised
Returned == call = [fn |-> "NMRSequence", returned |-> TRUE]
Rejected == seq = NoSeq /\ err \notin {"ok", "none"}

\* the receive windows (pairs of RX timestamps at odd/even position) and the
\* pulse windows of the arrays, where the arrays pair up
WindowsDefined ==
    /\ ~arr.imag
    /\ Len(arr.tx_t) = Len(arr.tx_p)
    /\ Len(PulseStartIdx(arr.tx_p)) = Len(PulseEndIdx(arr.tx_p))
    /\ Len(arr.rx) % 2 = 0
\* the spans of nonzero power of a (timestamps, powers) event list and the
\* spans between the RX timestamps at odd and even position
PulseWindowsOf(tx_t, tx_p) ==
    {<<tx_t[PulseStartIdx(tx_p)[k]], tx_t[PulseEndIdx(tx_p)[k]]>> :
        k \in 1..Len(PulseStartIdx(tx_p))}
ReceiveWindowsOf(rx) == {<<rx[2 * k - 1], rx[2 * k]>> : k \in 1..(Len(rx) \div 2)}
PulseWindows == PulseWindowsOf(arr.tx_t, arr.tx_p)
ReceiveWindows == ReceiveWindowsOf(arr.rx)
Apart(p, r) == p[1] >= r[2] + 1 \/ p[2] + 1 <= r[1]
AllApart == \A p \in PulseWindows : \A r \in ReceiveWindows : Apart(p, r)

StrictlyIncreasing(a) == \A i \in 1..(Len(a) - 1) : a[i] < a[i + 1]
RepeatsOrDecreases(a) == \E i \in 1..(Len(a) - 1) : a[i + 1] <= a[i]
NonNegative(a) == \A i \in 1..Len(a) : a[i] >= 0

\* the constructor's checks that come before the overlap check all pass
PassesStructure ==
    /\ Len(arr.tx_t) = Len(arr.tx_p)
    /\ ~arr.imag
    /\ NonNegative(arr.tx_t) /\ StrictlyIncreasing(arr.tx_t)
    /\ (Len(arr.tx_p) > 0 => arr.tx_p[Len(arr.tx_p)] = Zero)
    /\ NonNegative(arr.rx) /\ StrictlyIncreasing(arr.rx)
    /\ Len(arr.rx) % 2 = 0

\* every window runs forward in time
ProperWindows ==
    /\ \A p \in PulseWindows : p[1] < p[2]
    /\ \A r \in ReceiveWindows : r[1] < r[2]

\* C1, as stated: every returned sequence keeps each pulse window and each
\* receive window at least 1 us apart, and EVERY input with a pair that is
\* closer is rejected with the error that says transmit and receive cannot
\* happen simultaneously (stated here for inputs whose windows pair up and
\* run forward in time).
C1_AsStated ==
    Returned =>
        /\ (seq # NoSeq => AllApart)
        /\ (WindowsDefined /\ ProperWindows /\ ~AllApart
                => Rejected /\ err = "simultaneously")

\* C1, amended: every returned sequence keeps each pulse window and each
\* receive window at least 1 us apart; every input with a pair that is closer
\* is rejected, and the error is the "simultaneously" one when the input
\* passes the checks that precede the overlap check.
C1_Separation ==
    Returned =>
        /\ (seq # NoSeq => AllApart)
        /\ (WindowsDefined /\ ~AllApart => Rejected)
        /\ (PassesStructure /\ ~AllApart => Rejected /\ err = "simultaneously")

\* the zero-gap input of the tests has been rejected
C1_Witness == Returned /\ arr = ParsingOverlap /\ err = "simultaneously"

\* C3: a returned sequence has TX arrays of equal length, an even number of RX
\* timestamps and no negative timestamp; an input that breaks one of the three
\* is rejected and no object is returned.
C3_Structure ==
    Returned =>
        /\ (seq # NoSeq =>
                /\ Len(TxTimes(seq)) = Len(TxPowers(seq))
                /\ Len(RxTimes(seq)) % 2 = 0
                /\ NonNegative(TxTimes(seq)) /\ NonNegative(RxTimes(seq)))
        /\ (\/ Len(arr.tx_t) # Len(arr.tx_p)
            \/ Len(arr.rx) % 2 = 1
            \/ ~NonNegative(arr.tx_t) \/ ~NonNegative(arr.rx)
                => Rejected)

\* an otherwise well-formed input with three RX timestamps has been rejected
C3_Witness ==
    /\ Returned /\ err = "rx_odd" /\ seq = NoSeq
    /\ Len(arr.rx) % 2 = 1 /\ Len(arr.tx_t) = 2

\* C4: an input whose TX or RX timestamps repeat or decrease is rejected,
\* whatever the other fields are; a returned sequence has strictly increasing
\* TX and RX timestamps.
C4_Monotonic ==
    Returned =>
        /\ (RepeatsOrDecreases(arr.tx_t) \/ RepeatsOrDecreases(arr.rx) => Rejected)
        /\ (seq # NoSeq =>
                StrictlyIncreasing(TxTimes(seq)) /\ StrictlyIncreasing(RxTimes(seq)))

\* an input whose only flaw is a repeated RX timestamp has been rejected
C4_Witness ==
    /\ Returned /\ err = "rx_monotonic" /\ seq = NoSeq
    /\ \E i \in 1..(Len(arr.rx) - 1) : arr.rx[i + 1] = arr.rx[i]

\* C5: a non-empty TX array whose last power is nonzero is rejected; a returned
\* sequence with a non-empty TX list ends in power 0 and has as many pulse
\* starts as pulse ends.
C5_LastPower ==
    Returned =>
        /\ (Len(arr.tx_p) > 0 /\ arr.tx_p[Len(arr.tx_p)] # Zero => Rejected)
        /\ (seq # NoSeq /\ Len(TxPowers(seq)) > 0 =>
                /\ TxPowers(seq)[Len(TxPowers(seq))] = Zero
                /\ Len(PulseStartIdx(TxPowers(seq))) = Len(PulseEndIdx(TxPowers(seq))))

\* a pulse left on at the end has been rejected
C5_Witness ==
    /\ Returned /\ err = "last_power" /\ seq = NoSeq
    /\ Len(arr.tx_p) = 2 /\ arr.tx_p[2] # Zero

\* C6: once the constructor has returned a sequence, the arrays of the
\* sequence still pass the constructor's checks at every later point, whatever
\* the caller does with the arrays it passed.
C6_StillValid ==
    seq # NoSeq =>
        Validate(TxTimes(seq), TxPowers(seq), RxTimes(seq), arr.imag) = "ok"

\* the maximal runs of nonzero power: <<i, j>> where the run starts at entry i
\* and j is the first entry after it with power 0
Runs(tx_p) ==
    {ij \in (1..Len(tx_p)) \X (1..Len(tx_p)) :
        /\ ij[1] < ij[2]
        /\ tx_p[ij[1]] # Zero
        /\ ij[1] > 1 => tx_p[ij[1] - 1] = Zero
        /\ tx_p[ij[2]] = Zero
        /\ \A k \in ij[1]..(ij[2] - 1) : tx_p[k] # Zero}
Spans(tx_t, tx_p) == {<<tx_t[ij[1]], tx_t[ij[2]]>> : ij \in Runs(tx_p)}

\* the constructor has come to its edge detection
EdgesDerived == Returned /\ err \in {"ok", "simultaneously"}

\* C24: the pulse windows the constructor derives are exactly the maximal runs
\* of nonzero power, one (start, end) pair per run, from the timestamp of the
\* run's first entry to the timestamp of the first zero entry after it; the
\* arrays of the tests give (1, 5) and (9, 15).
C24_PulseWindows ==
    EdgesDerived =>
        /\ Len(PulseStartIdx(arr.tx_p)) = Cardinality(Runs(arr.tx_p))
        /\ Len(PulseEndIdx(arr.tx_p)) = Cardinality(Runs(arr.tx_p))
        /\ \A k \in 1..Len(PulseStartIdx(arr.tx_p)) :
                <<PulseStartIdx(arr.tx_p)[k], PulseEndIdx(arr.tx_p)[k]>> \in Runs(arr.tx_p)
        /\ PulseWindows = Spans(arr.tx_t, arr.tx_p)
        /\ arr = ParsingOk => PulseWindows = {<<1, 5>>, <<9, 15>>}

\* a power array with a phase change inside a pulse and a repeated zero has
\* been scanned
C24_Witness ==
    /\ EdgesDerived
    /\ arr.tx_p = <<One, ImagUnit, Zero, Zero>>
    /\ PulseWindows = {<<1, 3>>}

\* the seven invariants, stated on the arrays
SevenInvariants ==
    /\ Len(arr.tx_t) = Len(arr.tx_p)
    /\ ~arr.imag
    /\ NonNegative(arr.tx_t)
    /\ StrictlyIncreasing(arr.tx_t)
    /\ (Len(arr.tx_p) > 0 => arr.tx_p[Len(arr.tx_p)] = Zero)
    /\ NonNegative(arr.rx) /\ StrictlyIncreasing(arr.rx) /\ Len(arr.rx) % 2 = 0
    /\ \A p \in Spans(arr.tx_t, arr.tx_p) : \A r \in ReceiveWindows : Apart(p, r)

\* C25: an input that satisfies the seven invariants is accepted and the
\* object holds the arrays as given; the arrays of the tests, with gaps of
\* exactly 1 us, are accepted.
C25_NoFalseRejection ==
    Returned =>
        /\ SevenInvariants =>
                /\ err = "ok" /\ seq = Stored
                /\ TxTimes(seq) = arr.tx_t /\ TxPowers(seq) = arr.tx_p
                /\ RxTimes(seq) = arr.rx
        /\ arr = ParsingOk => err = "ok"

\* a receive window that ends exactly 1 us before the pulse has been accepted
C25_Witness ==
    /\ Returned /\ err = "ok"
    /\ arr.rx = <<0, 1>> /\ arr.tx_t = <<2, 3>> /\ arr.tx_p = <<One, Zero>>

-----------------------------------------------------------------------------
(* Pulse, Delay and Record value objects.  A constructor expression is a      *)
(* record [kind, duration_us, power, phase_rad]; power and phase_rad are      *)
(* read for a Pulse only.  Phases are multiples of pi/2, counted in quarter   *)
(* turns, so that phase_rad % (2 * pi) is phase_rad % 4.                      *)

MaxDur == 2      \* durations of enumerated operations are drawn from 0..MaxDur
MaxOps == 3      \* enumerated operation lists have at most MaxOps entries

PulseExpr(d, pw, ph) == [kind |-> "Pulse", duration_us |-> d, power |-> pw, phase_rad |-> ph]
DelayExpr(d) == [kind |-> "Delay", duration_us |-> d, power |-> 0, phase_rad |-> 0]
RecordExpr(d) == [kind |-> "Record", duration_us |-> d, power |-> 0, phase_rad |-> 0]
\* some object that is none of the three, and a string
OtherObject == [kind |-> "Other", duration_us |-> 0, power |-> 0, phase_rad |-> 0]
TextObject == [kind |-> "str", duration_us |-> 0, power |-> 0, phase_rad |-> 0]

\* a Pulse that rejects the ends of the power range
PulseInitOpen(e) ==
    IF e.power <= 0 \/ e.power >= 1 THEN "pulse_power"
    ELSE IF e.duration_us < 0 THEN "pulse_duration"
    ELSE "ok"

\* Pulse.__init__, Delay.__init__, Record.__init__: "ok" or the ValueError
PulseInit(e) ==
    IF e.power < 0 \/ e.power > 1 THEN "pulse_power"
    ELSE IF e.duration_us < 0 THEN "pulse_duration"
    ELSE "ok"
DelayInit(e) == IF e.duration_us < 0 THEN "delay_duration" ELSE "ok"
RecordInit(e) == IF e.duration_us < 0 THEN "record_duration" ELSE "ok"

ValueInit(e) ==
    CASE e.kind = "Pulse" -> PulseInit(e)
      [] e.kind = "Delay" -> DelayInit(e)
      [] e.kind = "Record" -> RecordInit(e)
      [] OTHER -> "ok"

\* self.phase_rad = phase_rad % (2 * np.pi)
ValueObject(e) == [e EXCEPT !.phase_rad = e.phase_rad % 4]

\* np.exp(1j * phase_rad) for a phase of q quarter turns
ExpI(q) ==
    CASE q = 0 -> <<1, 0>>
      [] q = 1 -> <<0, 1>>
      [] q = 2 -> <<-1, 0>>
      [] OTHER -> <<0, -1>>

\* Pulse.pulse_complex: self.power * np.exp(1j * self.phase_rad)
pulse_complex(pulse) ==
    <<pulse.power * ExpI(pulse.phase_rad)[1], pulse.power * ExpI(pulse.phase_rad)[2]>>

-----------------------------------------------------------------------------
(* The outcome of a call of the constructor on freshly made arrays *)

Arrays(tx_t, tx_p, rx) == [tx_t |-> tx_t, tx_p |-> tx_p, rx |-> rx, imag |-> FALSE]

\* cls(tx_sequence, rx_sequence)
Cls(tx_t, tx_p, rx) ==
    [err |-> Validate(tx_t, tx_p, rx, FALSE), arr |-> Arrays(tx_t, tx_p, rx)]

\* an exception raised before the constructor is reached
Raised(e) == [err |-> e, arr |-> NoArrays]

-----------------------------------------------------------------------------
(* NMRSequence.build *)

BuildStart ==
    [current_time_us |-> 0, tx_powers |-> <<>>, tx_times_us |-> <<>>,
     rx_times_us |-> <<>>, unknown |-> FALSE, default |-> ""]

\* a builder that joins a pulse to the pulse that ends where it starts
OnPulseJoined(st, event) ==
    LET n == Len(st.tx_times_us)
        joined == n > 0 /\ st.tx_times_us[n] = st.current_time_us
    IN  [st EXCEPT
            !.tx_powers = IF joined
                          THEN Append([@ EXCEPT ![n] = pulse_complex(event)], Zero)
                          ELSE Append(Append(@, pulse_complex(event)), Zero),
            !.tx_times_us = IF joined
                            THEN Append(@, st.current_time_us + event.duration_us)
                            ELSE Append(Append(@, st.current_time_us),
                                        st.current_time_us + event.duration_us),
            !.current_time_us = @ + event.duration_us]

OnPulse(st, event) ==
    [st EXCEPT
        !.tx_powers = Append(Append(@, pulse_complex(event)), Zero),
        !.tx_times_us = Append(Append(@, st.current_time_us),
                               st.current_time_us + event.duration_us),
        !.current_time_us = @ + event.duration_us]

\* a builder that forgets to advance the clock on a Delay
OnDelayDropped(st, event) == st

OnDelay(st, event) == [st EXCEPT !.current_time_us = @ + event.duration_us]

OnRecord(st, event) ==
    [st EXCEPT
        !.rx_times_us = Append(Append(@, st.current_time_us),
                               st.current_time_us + event.duration_us),
        !.current_time_us = @ + event.duration_us]

\* a builder that skips what it does not know
OnDefaultSkipped(st, event) == st

\* case default: the loop ends with the ValueError that shows the object
OnDefault(st, event) == [st EXCEPT !.unknown = TRUE, !.default = event.kind]

\* f"Unknown object found in pulse sequence: {default}"
UnknownObject(default) == "Unknown object found in pulse sequence: " \o default

\* the for loop over the events, from event i on
RECURSIVE BuildLoop(_, _, _)
BuildLoop(sequence, i, st) ==
    IF i > Len(sequence) \/ st.unknown THEN st
    ELSE LET event == sequence[i]
         IN  BuildLoop(sequence, i + 1,
                CASE event.kind = "Pulse" -> OnPulse(st, event)
                  [] event.kind = "Delay" -> OnDelay(st, event)
                  [] event.kind = "Record" -> OnRecord(st, event)
                  [] OTHER -> OnDefault(st, event))

build(sequence) ==
    LET st == BuildLoop(sequence, 1, BuildStart)
    IN  IF st.unknown THEN Raised(UnknownObject(st.default))
        ELSE Cls(st.tx_times_us, st.tx_powers, st.rx_times_us)

\* the statement NMRSequence.build([e1, ..., en]): the value objects are
\* constructed left to right, the first ValueError ends the statement
BuildStatement(exprs) ==
    LET bad == {i \in 1..Len(exprs) : ValueInit(exprs[i]) # "ok"}
    IN  IF bad # {}
        THEN Raised(ValueInit(exprs[CHOOSE i \in bad : \A j \in bad : i <= j]))
        ELSE build([i \in 1..Len(exprs) |-> ValueObject(exprs[i])])

-----------------------------------------------------------------------------
(* NMRSequence.simple and NMRSequence.spin_echo *)

\* a simple() whose receive window forgets the pulse length
simple_no_pulse(pulse_length_us, delay_us, record_length_us) ==
    Cls(<<0, pulse_length_us>>, <<One, Zero>>,
        <<delay_us, delay_us + record_length_us>>)

simple(pulse_length_us, delay_us, record_length_us) ==
    Cls(<<0, pulse_length_us>>, <<One, Zero>>,
        <<pulse_length_us + delay_us, pulse_length_us + delay_us + record_length_us>>)

\* a spin echo whose second pulse is as long as the first
spin_echo_equal(pulse_length_us, delay_tau_us, delay_after_p2_us, record_length_us) ==
    LET pulse_90_end_us == pulse_length_us
        pulse_180_start_us == pulse_90_end_us + delay_tau_us
        pulse_180_end_us == pulse_180_start_us + pulse_length_us
        record_start_us == pulse_180_end_us + delay_after_p2_us
    IN  Cls(<<0, pulse_90_end_us, pulse_180_start_us, pulse_180_end_us>>,
            <<One, Zero, One, Zero>>,
            <<record_start_us, record_start_us + record_length_us>>)

spin_echo(pulse_length_us, delay_tau_us, delay_after_p2_us, record_length_us) ==
    LET pulse_90_start_us == 0
        pulse_90_end_us == pulse_90_start_us + pulse_length_us
        pulse_180_start_us == pulse_90_end_us + delay_tau_us
        pulse_180_end_us == pulse_180_start_us + 2 * pulse_length_us
        record_start_us == pulse_180_end_us + delay_after_p2_us
        record_end_us == record_start_us + record_length_us
    IN  Cls(<<pulse_90_start_us, pulse_90_end_us, pulse_180_start_us, pulse_180_end_us>>,
            <<One, Zero, One, Zero>>,
            <<record_start_us, record_end_us>>)

\* an "empty" sequence holding one idle TX event
empty_one_event == Cls(<<0>>, <<Zero>>, <<>>)

\* NMRSequence.empty(): cls((np.empty(0), np.empty(0)), np.empty(0))
empty == Cls(<<>>, <<>>, <<>>)

-----------------------------------------------------------------------------
(* NMRSequence.__eq__ *)

\* 1 / rtol of np.allclose (rtol = 1e-5; atol = 1e-8 is below the resolution
\* of integer values)
RtolInv == 100000

Abs(x) == IF x < 0 THEN -x ELSE x
NormSq(c) == c[1] * c[1] + c[2] * c[2]

\* np.isclose(a, b): abs(a - b) <= atol + rtol * abs(b), on integers
isclose(a, b) == a = b \/ Abs(a - b) <= Abs(b) \div RtolInv

\* np.isclose on complex values with integer parts:
\* |a - b|^2 <= (rtol |b|)^2
isclose_complex(a, b) ==
    a = b \/ NormSq(<<a[1] - b[1], a[2] - b[2]>>) <= (NormSq(b) \div RtolInv) \div RtolInv

\* the common length two axes of length n and m broadcast to, -1 if they do not
BroadcastLen(n, m) ==
    IF n = m THEN n ELSE IF n = 1 THEN m ELSE IF m = 1 THEN n ELSE -1

\* the k-th element of an axis stretched by broadcasting
Stretch(a, k) == IF Len(a) = 1 THEN a[1] ELSE a[k]

\* np.allclose(a, b) for two one-dimensional real arrays
allclose(a, b) ==
    LET n == BroadcastLen(Len(a), Len(b))
    IN  IF n < 0 THEN "ValueError"
        ELSE IF \A k \in 1..n : isclose(Stretch(a, k), Stretch(b, k)) THEN "True"
        ELSE "False"

\* np.allclose(a, b) for two (timestamps, powers) tuples: each becomes an array
\* of shape (2, n)
allclose_tx(a, b) ==
    IF Len(a[1]) # Len(a[2]) \/ Len(b[1]) # Len(b[2]) THEN "ValueError"
    ELSE LET n == BroadcastLen(Len(a[1]), Len(b[1]))
         IN  IF n < 0 THEN "ValueError"
             ELSE IF \A k \in 1..n :
                        /\ isclose(Stretch(a[1], k), Stretch(b[1], k))
                        /\ isclose_complex(Stretch(a[2], k), Stretch(b[2], k))
                  THEN "True"
             ELSE "False"

\* self == other for two NMRSequence objects, given by the contents of their
\* arrays: "True" or "False"
eq(self, oth) ==
    LET tx == allclose_tx(<<self.tx_t, self.tx_p>>, <<oth.tx_t, oth.tx_p>>)
    IN  IF tx = "ValueError" THEN "False"
        ELSE IF tx = "False" THEN "False"
        ELSE LET rx == allclose(self.rx, oth.rx)
             IN  IF rx = "ValueError" THEN "False" ELSE rx

-----------------------------------------------------------------------------
(* The builder and the convenience constructors as calls of a client *)

PulseArgs == {<<1, 0>>, <<1, 5>>, <<0, 0>>, <<2, 0>>}   \* (power, phase)
Durations == (-1)..MaxDur

MaxPower == 2    \* powers of enumerated Pulse calls are drawn from -1..MaxPower
Powers == (-1)..MaxPower
Phases == {-1, 0, 5}

\* the calls Pulse(d, pw, ph), Delay(d) and Record(d)
ValueExprs ==
    {PulseExpr(d, pw, ph) : d \in Durations, pw \in Powers, ph \in Phases}
        \cup {DelayExpr(d) : d \in Durations}
        \cup {RecordExpr(d) : d \in Durations}

OpExprs ==
    {PulseExpr(d, a[1], a[2]) : d \in Durations, a \in PulseArgs}
        \cup {DelayExpr(d) : d \in Durations}
        \cup {RecordExpr(d) : d \in Durations}
        \cup {OtherObject, TextObject}

\* the list of tests/test_sequence.py::test_custom_pulse_sequence_advanced
Advanced ==
    <<PulseExpr(9, 1, 0), DelayExpr(1000), PulseExpr(18, 1, 0), DelayExpr(1000),
      RecordExpr(10000), DelayExpr(1), PulseExpr(18, 1, 0), DelayExpr(1000),
      RecordExpr(10000)>>

\* the list of tests/test_sequence.py::test_simple_sequence, for any p, d, r
SimpleList(p, d, r) == <<PulseExpr(p, 1, 0), DelayExpr(d), RecordExpr(r)>>

\* the lists of the tests, next to the enumerated lists of up to MaxOps entries
TestLists == {Advanced, SimpleList(9, 5, 10000)}

SimpleParams ==
    (Durations \X Durations \X Durations) \cup {<<9, 5, 10000>>, <<1, -3, 5>>}
SpinEchoParams ==
    (Durations \X Durations \X Durations \X Durations) \cup {<<10, 1000, 50, 10000>>}

InitBuild ==
    /\ \/ \E k \in 0..MaxOps : \E ops \in [1..k -> OpExprs] :
                call = [fn |-> "build", returned |-> FALSE, sequence |-> ops]
       \/ call \in [fn : {"build"}, returned : {FALSE}, sequence : TestLists]
       \/ call \in [fn : {"simple"}, returned : {FALSE}, args : SimpleParams]
       \/ call \in [fn : {"spin_echo"}, returned : {FALSE}, args : SpinEchoParams]
       \/ call = [fn |-> "empty", returned |-> FALSE]
       \/ call \in {[fn |-> e.kind, returned |-> FALSE, expr |-> e] : e \in ValueExprs}
    /\ arr = NoArrays
    /\ seq = NoSeq
    /\ err = "none"
    /\ other = NoArrays
    /\ eqres = "none"
    /\ NewSpectrometer
    /\ ret = NoRet
    /\ Untouched

\* the call returns r: the arrays it made, and the sequence or the error
Return(r) ==
    /\ arr' = r.arr
    /\ err' = r.err
    /\ seq' = IF r.err = "ok" THEN Stored ELSE NoSeq
    /\ call' = [call EXCEPT !.returned = TRUE]
    /\ UNCHANGED <<other, eqres, socket, flo, ret, log, board, files>>

CallBuild ==
    /\ call.fn = "build" /\ ~call.returned
    /\ Return(BuildStatement(call.sequence))

CallSimple ==
    /\ call.fn = "simple" /\ ~call.returned
    /\ Return(simple(call.args[1], call.args[2], call.args[3]))

CallSpinEcho ==
    /\ call.fn = "spin_echo" /\ ~call.returned
    /\ Return(spin_echo(call.args[1], call.args[2], call.args[3], call.args[4]))

CallEmpty ==
    /\ call.fn = "empty" /\ ~call.returned
    /\ Return(empty)

\* Pulse(...), Delay(...) or Record(...): the object, or the ValueError and
\* no object
CallValueInit ==
    /\ call.fn \in {"Pulse", "Delay", "Record"} /\ ~call.returned
    /\ err' = ValueInit(call.expr)
    /\ ret' = IF ValueInit(call.expr) = "ok"
              THEN [kind |-> "object", value |-> ValueObject(call.expr)]
              ELSE NoRet
    /\ call' = [call EXCEPT !.returned = TRUE]
    /\ UNCHANGED <<arr, seq, other, eqres, socket, flo, log, board, files>>

NextBuild == CallBuild \/ CallSimple \/ CallSpinEcho \/ CallEmpty \/ CallValueInit

SpecBuild == InitBuild /\ [][NextBuild]_vars

-----------------------------------------------------------------------------
(* Claims about the builder and the convenience constructors *)

\* the contents of the arrays of the returned sequence
SeqArrays == Arrays(TxTimes(seq), TxPowers(seq), RxTimes(seq))

\* the clock before operation i of a list: the durations before it, added up
RECURSIVE ClockBefore(_, _)
ClockBefore(ops, i) ==
    IF i <= 1 THEN 0 ELSE ClockBefore(ops, i - 1) + ops[i - 1].duration_us
ClockAfter(ops, i) == ClockBefore(ops, i) + ops[i].duration_us

OfKind(ops, kind) == Nonzero({i \in 1..Len(ops) : ops[i].kind = kind})

\* power * e^(i phase) of a pulse expression
ComplexPower(e) ==
    CASE e.phase_rad % 4 = 0 -> <<e.power, 0>>
      [] e.phase_rad % 4 = 1 -> <<0, e.power>>
      [] e.phase_rad % 4 = 2 -> <<0 - e.power, 0>>
      [] OTHER -> <<0, 0 - e.power>>

\* two entries per Pulse or Record, in list order: the clock before it and
\* the clock after it
ClockPairs(ops, kind) ==
    [k \in 1..(2 * Len(OfKind(ops, kind))) |->
        IF k % 2 = 1 THEN ClockBefore(ops, OfKind(ops, kind)[(k + 1) \div 2])
        ELSE ClockAfter(ops, OfKind(ops, kind)[k \div 2])]
OnOffPowers(ops) ==
    [k \in 1..(2 * Len(OfKind(ops, "Pulse"))) |->
        IF k % 2 = 1 THEN ComplexPower(ops[OfKind(ops, "Pulse")[(k + 1) \div 2]])
        ELSE Zero]

WellFormedList(ops) ==
    \A i \in 1..Len(ops) :
        /\ ops[i].kind \in {"Pulse", "Delay", "Record"}
        /\ ops[i].duration_us >= 0
        /\ ops[i].kind = "Pulse" => ops[i].power \in 0..1

\* C7: build hands the constructor the arrays of a clock run from 0 through
\* the list: (clock, power) and (clock + duration, 0) per Pulse, nothing per
\* Delay, clock and clock + duration per Record; the advanced list of the
\* tests gives the arrays the test expects.
C7_BuildArrays ==
    call.fn = "build" /\ call.returned =>
        /\ WellFormedList(call.sequence) =>
                /\ arr.tx_t = ClockPairs(call.sequence, "Pulse")
                /\ arr.tx_p = OnOffPowers(call.sequence)
                /\ arr.rx = ClockPairs(call.sequence, "Record")
        /\ call.sequence = Advanced =>
                /\ arr.tx_t = <<0, 9, 1009, 1027, 12028, 12046>>
                /\ arr.tx_p = <<One, Zero, One, Zero, One, Zero>>
                /\ arr.rx = <<2027, 12027, 13046, 23046>>
                /\ err = "ok"

\* the advanced list has been built
C7_Witness ==
    call.fn = "build" /\ call.returned /\ call.sequence = Advanced /\ seq # NoSeq

\* C8: simple(p, d, r) has TX [(0, 1), (p, 0)] and RX [p + d, p + d + r], and
\* build([Pulse(p), Delay(d), Record(r)]) fails when it fails and otherwise
\* succeeds and compares equal to it (either way round).
C8_BuildEqualsSimple ==
    call.fn = "simple" /\ call.returned =>
        LET p == call.args[1]
            d == call.args[2]
            r == call.args[3]
            b == BuildStatement(SimpleList(p, d, r))
        IN  /\ arr = Arrays(<<0, p>>, <<One, Zero>>, <<p + d, p + d + r>>)
            /\ \/ err # "ok" /\ seq = NoSeq /\ b.err # "ok"
               \/ /\ err = "ok" /\ seq # NoSeq /\ b.err = "ok"
                  /\ eq(b.arr, SeqArrays) = "True"
                  /\ eq(SeqArrays, b.arr) = "True"

\* simple(9, 5, 10000) of the tests has succeeded
C8_Witness ==
    /\ call.fn = "simple" /\ call.returned /\ call.args = <<9, 5, 10000>>
    /\ seq # NoSeq
    /\ BuildStatement(SimpleList(9, 5, 10000)).err = "ok"

\* C9: a successful spin_echo(p, tau, d2, r) has TX [0, p, p + tau, p + tau + 2p]
\* with powers [1, 0, 1, 0], two pulse windows the second twice as long as the
\* first, and the one receive window [p + tau + 2p + d2, p + tau + 2p + d2 + r];
\* spin_echo(10, 1000, 50, 10000) gives TX [0, 10, 1010, 1030], RX [1080, 11080].
C9_SpinEcho ==
    call.fn = "spin_echo" /\ call.returned =>
        LET p == call.args[1]
            tau == call.args[2]
            d2 == call.args[3]
            r == call.args[4]
            starts == PulseStarts(TxTimes(seq), TxPowers(seq))
            ends == PulseEnds(TxTimes(seq), TxPowers(seq))
        IN  /\ seq # NoSeq =>
                /\ TxTimes(seq) = <<0, p, p + tau, p + tau + 2 * p>>
                /\ TxPowers(seq) = <<One, Zero, One, Zero>>
                /\ RxTimes(seq) = <<p + tau + 2 * p + d2, p + tau + 2 * p + d2 + r>>
                /\ Len(starts) = 2 /\ Len(ends) = 2
                /\ ends[2] - starts[2] = 2 * (ends[1] - starts[1])
                /\ RxTimes(seq)[1] > ends[2]
            /\ call.args = <<10, 1000, 50, 10000>> =>
                /\ seq # NoSeq
                /\ TxTimes(seq) = <<0, 10, 1010, 1030>>
                /\ RxTimes(seq) = <<1080, 11080>>

\* the spin echo of the tests has been made
C9_Witness ==
    /\ call.fn = "spin_echo" /\ call.returned /\ seq # NoSeq
    /\ call.args = <<10, 1000, 50, 10000>>

\* C11: NMRSequence.empty() passes validation, its TX timestamp, TX power and
\* RX arrays have length zero, and it compares equal (in both directions) to
\* another empty() instance and to NMRSequence(([], []), [])
C11_Empty ==
    call.fn = "empty" /\ call.returned =>
        /\ err = "ok" /\ seq # NoSeq
        /\ Len(TxTimes(seq)) = 0 /\ Len(TxPowers(seq)) = 0 /\ Len(RxTimes(seq)) = 0
        /\ empty.err = "ok"
        /\ eq(SeqArrays, empty.arr) = "True" /\ eq(empty.arr, SeqArrays) = "True"
        /\ Validate(<<>>, <<>>, <<>>, FALSE) = "ok"
        /\ eq(SeqArrays, Arrays(<<>>, <<>>, <<>>)) = "True"
        /\ eq(Arrays(<<>>, <<>>, <<>>), SeqArrays) = "True"

\* empty() has returned
C11_Witness == call.fn = "empty" /\ call.returned /\ seq # NoSeq

\* C12: Pulse(duration, power, phase) raises exactly when power < 0, power > 1
\* or duration < 0; Delay(duration) and Record(duration) raise exactly when
\* duration < 0. When the call raises there is no object; when it does not the
\* object holds the duration and the power that were given.
C12_ValueDomain ==
    call.fn \in {"Pulse", "Delay", "Record"} /\ call.returned =>
        LET e == call.expr
            raised == err # "ok"
        IN  /\ call.fn = "Pulse" =>
                    (raised <=> (e.power < 0 \/ e.power > 1 \/ e.duration_us < 0))
            /\ call.fn \in {"Delay", "Record"} => (raised <=> e.duration_us < 0)
            /\ raised => ret = NoRet
            /\ ~raised =>
                    /\ ret.kind = "object"
                    /\ ret.value.kind = call.fn
                    /\ ret.value.duration_us = e.duration_us
                    /\ ret.value.power = e.power

\* Pulse(0, 1, ...) has been accepted
C12_Witness ==
    /\ call.fn = "Pulse" /\ call.returned
    /\ call.expr.power = 1 /\ call.expr.duration_us = 0
    /\ ret.kind = "object"

\* the objects of a list have all been constructed
Constructed(exprs) == \A i \in 1..Len(exprs) : ValueInit(exprs[i]) = "ok"

\* the positions of the elements that are no Pulse, Delay or Record
UnknownAt(ops) == {i \in 1..Len(ops) : ops[i].kind \notin {"Pulse", "Delay", "Record"}}

\* C13: build of a list with an element that is no Pulse, Delay or Record
\* raises the error that shows the first such element, whatever the other
\* elements are, and returns no sequence
C13_UnknownObject ==
    /\ call.fn = "build" /\ call.returned
    /\ Constructed(call.sequence) /\ UnknownAt(call.sequence) # {}
    => /\ seq = NoSeq
       /\ \E i \in UnknownAt(call.sequence) :
            /\ \A j \in UnknownAt(call.sequence) : i <= j
            /\ err = UnknownObject(call.sequence[i].kind)

\* build has met a string after two operations it knows
C13_Witness ==
    /\ call.fn = "build" /\ call.returned
    /\ Len(call.sequence) = 3 /\ Constructed(call.sequence)
    /\ UnknownAt(call.sequence) = {3} /\ call.sequence[3] = TextObject
    /\ seq = NoSeq

AdjacentAt(ops) ==
    {i \in 2..Len(ops) : ops[i - 1].kind = "Pulse" /\ ops[i].kind = "Pulse"}

\* the number of Pulses up to position i
PulseRank(ops, i) == Cardinality({j \in 1..i : ops[j].kind = "Pulse"})

\* the TX arrays hold, for the Pulse at i that directly follows a Pulse, the
\* end (t, 0) of the one and the start (t, power) of the other as two entries
Uncollapsed(ops, tx_t, tx_p, i) ==
    LET k == 2 * PulseRank(ops, i - 1)
    IN  /\ Len(tx_t) = 2 * PulseRank(ops, Len(ops)) /\ Len(tx_p) = Len(tx_t)
        /\ tx_t[k] = ClockBefore(ops, i) /\ tx_p[k] = Zero
        /\ tx_t[k + 1] = ClockBefore(ops, i) /\ tx_p[k + 1] = ComplexPower(ops[i])

\* every Pulse of the list has a positive length and a positive power
ProperPulses(ops) ==
    \A i \in 1..Len(ops) :
        ops[i].kind = "Pulse" => ops[i].duration_us > 0 /\ ops[i].power > 0

\* C14 as stated: build of a list with directly adjacent Pulses (of positive
\* length and power) produces a sequence whose TX list holds both entries
C14_AsStated ==
    /\ call.fn = "build" /\ call.returned
    /\ WellFormedList(call.sequence) /\ AdjacentAt(call.sequence) # {}
    /\ ProperPulses(call.sequence)
    => /\ seq # NoSeq
       /\ \A i \in AdjacentAt(call.sequence) :
            Uncollapsed(call.sequence, TxTimes(seq), TxPowers(seq), i)

\* C14: build of a list with directly adjacent Pulses hands the constructor
\* TX arrays with two entries per Pulse, the end (t, 0) of the first pulse and
\* the start (t, power) of the second as separate entries; the constructor
\* rejects the repeated timestamp, so no sequence is produced
C14_UncollapsedRejected ==
    /\ call.fn = "build" /\ call.returned
    /\ WellFormedList(call.sequence) /\ AdjacentAt(call.sequence) # {}
    => /\ \A i \in AdjacentAt(call.sequence) :
            Uncollapsed(call.sequence, arr.tx_t, arr.tx_p, i)
       /\ err = "tx_monotonic"
       /\ seq = NoSeq

\* build has been given two Pulses of positive length, one after the other
C14_Witness ==
    /\ call.fn = "build" /\ call.returned /\ WellFormedList(call.sequence)
    /\ \E i \in AdjacentAt(call.sequence) :
            call.sequence[i - 1].duration_us > 0 /\ call.sequence[i].duration_us > 0
    /\ err = "tx_monotonic"

-----------------------------------------------------------------------------
(* _merge_overlapping_ranges *)

\* sorted(a)
RECURSIVE Insert(_, _)
Insert(a, x) ==
    IF a = <<>> THEN <<x>>
    ELSE IF x <= Head(a) THEN <<x>> \o a
    ELSE <<Head(a)>> \o Insert(Tail(a), x)
RECURSIVE Sorted(_)
Sorted(a) == IF a = <<>> THEN <<>> ELSE Insert(Sorted(Tail(a)), Head(a))

\* np.array(list(zip(starts, ends))).flatten()
Interleave(starts, ends) ==
    [k \in 1..(2 * Len(starts)) |->
        IF k % 2 = 1 THEN starts[(k + 1) \div 2] ELSE ends[k \div 2]]

\* a delete that is one position early
DeleteBefore(a, idx) == Take(a, Nonzero((1..Len(a)) \ {j - 1 : j \in idx}))

\* np.delete(a, idx): the entries whose position is not in idx, in order
Delete(a, idx) == Take(a, Nonzero((1..Len(a)) \ idx))

\* a merge that pairs the sorted starts and ends and drops nothing
merge_none(starts, ends) == Interleave(Sorted(starts), Sorted(ends))

\* a merge that keeps ranges that only touch
merge_strict(starts, ends) ==
    LET p == Interleave(Sorted(starts), Sorted(ends))
        ind == {j \in 1..(Len(p) - 1) : p[j + 1] - p[j] < 0 /\ j % 2 = 0}
    IN  Delete(p, ind \cup {j + 1 : j \in ind})

\* a merge that pairs the starts and ends as given, without sorting them
merge_unsorted(starts, ends) ==
    LET p == Interleave(starts, ends)
        ind == {j \in 1..(Len(p) - 1) : p[j + 1] - p[j] <= 0 /\ j % 2 = 0}
    IN  Delete(p, ind \cup {j + 1 : j \in ind})

\* the flattened result: ind holds the (1-based) positions of the ends that
\* are not below the start that follows them; each is dropped with that start
merge_overlapping_ranges(starts, ends) ==
    LET p == Interleave(Sorted(starts), Sorted(ends))
        ind == {j \in 1..(Len(p) - 1) : p[j + 1] - p[j] <= 0 /\ j % 2 = 0}
    IN  Delete(p, ind \cup {j + 1 : j \in ind})

-----------------------------------------------------------------------------
(* Spectrometer *)

\* the shift of the TX timestamps in send_sequence
TxShiftUs == 10
\* the time the transmit gate opens before and closes after a pulse
GatePadUs == 1

Shift(a, d) == [k \in 1..Len(a) |-> a[k] + d]

\* np.resize([1, 0], n)
OnOff(n) == [k \in 1..n |-> IF k % 2 = 1 THEN 1 ELSE 0]

\* the dictionary send_sequence passes to exp.add_flodict
Flodict(tx_times, tx_powers, rx) ==
    LET tx_t == Shift(tx_times, TxShiftUs)
        pulse_starts == Take(tx_t, PulseStartIdx(tx_powers))
        pulse_ends == Take(tx_t, PulseEndIdx(tx_powers))
        tx_gate_on == Shift(pulse_starts, 0 - GatePadUs)
        tx_gate_off == Shift(pulse_ends, GatePadUs)
        tx_gate_sequence == merge_overlapping_ranges(tx_gate_on, tx_gate_off)
        rx_gate_sequence == rx
    IN  [tx0 |-> <<tx_t, tx_powers>>,
         tx_gate |-> <<tx_gate_sequence, OnOff(Len(tx_gate_sequence))>>,
         rx0_en |-> <<rx, OnOff(Len(rx))>>,
         rx_gate |-> <<rx_gate_sequence, OnOff(Len(rx_gate_sequence))>>]

\* Spectrometer.connect: the socket connects, or sock.connect raises and
\* self.socket keeps its value
Connect ==
    /\ \/ socket' = "open" /\ call' = [fn |-> "connect", raised |-> "none"]
       \/ socket' = socket /\ call' = [fn |-> "connect", raised |-> "OSError"]
    /\ UNCHANGED <<arr, seq, err, other, eqres, flo, ret, log, board, files>>

\* Spectrometer.disconnect: shutdown and close; an OSError is logged.
\* self.socket is not reset, and None has no shutdown()
Disconnect ==
    /\ \/ /\ socket = "None"
          /\ call' = [fn |-> "disconnect", raised |-> "AttributeError"]
          /\ socket' = socket
       \/ /\ socket = "open"
          /\ call' = [fn |-> "disconnect", raised |-> "none"]
          /\ socket' = "closed"
       \/ /\ socket = "closed"
          /\ call' = [fn |-> "disconnect", raised |-> "none"]
          /\ socket' = socket
    /\ UNCHANGED <<arr, seq, err, other, eqres, flo, ret, log, board, files>>

\* a send that does not look at self.socket
TruthyAlways(s) == TRUE

\* the truth value of self.socket in "if not self.socket"
Truthy(s) == s # "None"

\* Spectrometer.send_sequence(seq): without a socket ConnectionError is raised
\* before anything else; otherwise the experiment gets the channel event
\* lists and is run (on a closed socket the run fails in the socket layer)
SendSequence ==
    /\ seq # NoSeq
    /\ \/ /\ ~Truthy(socket)
          /\ call' = [fn |-> "send_sequence", raised |-> "ConnectionError"]
          /\ flo' = flo
       \/ /\ Truthy(socket)
          /\ flo' = Flodict(TxTimes(seq), TxPowers(seq), RxTimes(seq))
          /\ call' = [fn |-> "send_sequence",
                      raised |-> IF socket = "open" THEN "none" ELSE "OSError"]
    /\ UNCHANGED <<arr, seq, err, other, eqres, socket, ret, log, board, files>>

\* the sequences of the tests and scripts, next to the enumerated ones
SendFixtures ==
    {ParsingOk,
     simple(9, 5, 10000).arr,
     spin_echo(10, 1000, 50, 10000).arr,
     build(Advanced).arr}

ValidInputs == {a \in RawInputs \cup SendFixtures : Validate(a.tx_t, a.tx_p, a.rx, a.imag) = "ok"}

MaxGap == 3      \* the pulses of a train are 1..MaxGap us apart

\* three pulses of 1 us, the second g1 us after the first and the third g2 us
\* after the second
Train(g1, g2) ==
    Arrays(<<0, 1, 1 + g1, 2 + g1, 2 + g1 + g2, 3 + g1 + g2>>,
           <<One, Zero, One, Zero, One, Zero>>, <<>>)
PulseTrains == {Train(g1, g2) : g1 \in 1..MaxGap, g2 \in 1..MaxGap}

\* a validated sequence and a new Spectrometer
InitSend ==
    /\ call = [fn |-> "Spectrometer", raised |-> "none"]
    /\ arr \in RawInputs \/ arr \in SendFixtures \/ arr \in PulseTrains
    /\ Validate(arr.tx_t, arr.tx_p, arr.rx, arr.imag) = "ok"
    /\ seq = Stored
    /\ err = "ok"
    /\ other = NoArrays
    /\ eqres = "none"
    /\ NewSpectrometer
    /\ ret = NoRet
    /\ Untouched

NextSend == Connect \/ Disconnect \/ SendSequence

SpecSend == InitSend /\ [][NextSend]_vars

-----------------------------------------------------------------------------
(* Claims about send_sequence *)

\* C2: in the event lists handed to the experiment, every span of nonzero tx0
\* and every span of rx0_en being on are at least 1 us apart.
C2_EmittedApart ==
    flo # NoFlo =>
        \A p \in PulseWindowsOf(flo.tx0[1], flo.tx0[2]) :
            \A r \in ReceiveWindowsOf(flo.rx0_en[1]) : Apart(p, r)

\* the (on, off) pairs of a gate channel's timestamps
GateIntervals(gate) == {<<gate[2 * k - 1], gate[2 * k]>> : k \in 1..(Len(gate) \div 2)}

\* the pulse window p with the time the gate needs before and after it
Padded(p) == <<p[1] - GatePadUs, p[2] + GatePadUs>>
Within(w, g) == g[1] <= w[1] /\ w[2] <= g[2]

\* C15: in the tx_gate channel handed to the experiment the gate is on
\* throughout [p_start - 1, p_end + 1] for every pulse window of tx0 (and so
\* from 1 us before to 1 us after every stretch of nonzero power); its
\* timestamps are strictly increasing, its values alternate on, off, ..., off;
\* pulses whose padded windows overlap or touch share one gate interval.
C15_TxGate ==
    flo # NoFlo =>
        LET gate == flo.tx_gate[1]
            values == flo.tx_gate[2]
            tx_t == flo.tx0[1]
            tx_p == flo.tx0[2]
            windows == PulseWindowsOf(tx_t, tx_p)
        IN  /\ AllDiffPositive(gate)
            /\ Len(gate) % 2 = 0 /\ Len(values) = Len(gate)
            /\ \A k \in 1..Len(values) : values[k] = IF k % 2 = 1 THEN 1 ELSE 0
            /\ \A p \in windows : \E g \in GateIntervals(gate) : Within(Padded(p), g)
            /\ \A k \in 1..(Len(tx_t) - 1) :
                    tx_p[k] # Zero =>
                        \E g \in GateIntervals(gate) :
                            Within(Padded(<<tx_t[k], tx_t[k + 1]>>), g)
            /\ \A p, q \in windows :
                    p[2] < q[1] /\ Padded(q)[1] <= Padded(p)[2] =>
                        \E g \in GateIntervals(gate) :
                            Within(Padded(p), g) /\ Within(Padded(q), g)

\* a train has been sent whose first two padded windows touch and whose third
\* stands apart
C15_Witness ==
    /\ flo # NoFlo /\ call.fn = "send_sequence"
    /\ arr = Train(2, 3)
    /\ Len(flo.tx_gate[1]) = 4

\* C18: every TX power level of a sequence object has a magnitude in [0, 1],
\* however the object was made
C18_PowerMagnitude ==
    seq # NoSeq => \A k \in 1..Len(TxPowers(seq)) : NormSq(TxPowers(seq)[k]) <= 1

\* C19: send_sequence on an object whose socket is still None (no connect()
\* has been made) raises ConnectionError and hands nothing to an experiment
C19_NotConnected ==
    call.fn = "send_sequence" /\ socket = "None" =>
        call.raised = "ConnectionError" /\ flo = NoFlo

\* send_sequence has raised ConnectionError
C19_Witness ==
    call.fn = "send_sequence" /\ socket = "None" /\ call.raised = "ConnectionError"

\* C20: a send_sequence that is the first call made on a new Spectrometer
\* finds the object connected and raises nothing
C20_SendAfterInit ==
    [][call.fn = "Spectrometer" /\ call'.fn = "send_sequence" => call'.raised = "none"]_vars

\* C28: a send_sequence made while the socket is disconnected (disconnect()
\* has been called and no connect() since) raises ConnectionError and hands
\* nothing to the execution backend
C28_OnlyWhileConnected ==
    [][socket = "closed" /\ call'.fn = "send_sequence"
          => call'.raised = "ConnectionError" /\ flo' = flo]_vars

\* C29: disconnect() completes without raising in every state of the object
C29_DisconnectQuiet ==
    call.fn = "disconnect" => call.raised = "none"

-----------------------------------------------------------------------------
(* Two sequences compared *)

\* timestamps large enough for the relative tolerance of np.allclose to
\* exceed 1 us
LargeTimes ==
    {Arrays(<<0, 100000>>, <<One, Zero>>, <<>>),
     Arrays(<<0, 100001>>, <<One, Zero>>, <<>>)}

EqInputs == ValidInputs \cup LargeTimes

\* two validated sequences
InitEq ==
    /\ call = [fn |-> "__eq__", returned |-> FALSE]
    /\ arr \in EqInputs
    /\ seq = Stored
    /\ err = "ok"
    /\ other \in EqInputs
    /\ eqres = "none"
    /\ NewSpectrometer
    /\ ret = NoRet
    /\ Untouched

\* seq == other
Compare ==
    /\ call = [fn |-> "__eq__", returned |-> FALSE]
    /\ eqres' = eq(SeqArrays, other)
    /\ call' = [call EXCEPT !.returned = TRUE]
    /\ UNCHANGED <<arr, seq, err, other, socket, flo, ret, log, board, files>>

NextEq == Compare

SpecEq == InitEq /\ [][NextEq]_vars

SameLengths(a, b) ==
    /\ Len(a.tx_t) = Len(b.tx_t)
    /\ Len(a.tx_p) = Len(b.tx_p)
    /\ Len(a.rx) = Len(b.rx)

ElementwiseClose(a, b) ==
    /\ \A k \in 1..Len(a.tx_t) : isclose(a.tx_t[k], b.tx_t[k])
    /\ \A k \in 1..Len(a.tx_p) : isclose_complex(a.tx_p[k], b.tx_p[k])
    /\ \A k \in 1..Len(a.rx) : isclose(a.rx[k], b.rx[k])

\* C10: a == b exactly when the three arrays of a and b have the same lengths
\* and are elementwise numerically close; arrays of different length make
\* a == b False.
C10_EqIffClose ==
    eqres # "none" =>
        (eqres = "True" <=> SameLengths(SeqArrays, other) /\ ElementwiseClose(SeqArrays, other))


-----------------------------------------------------------------------------
(* _merge_overlapping_ranges on the padded pulse windows of a validated
   sequence.  Timestamps are floats in the code; here they are counted in
   ticks of 1 / TicksPerUs microseconds, so that pulses can be a fraction of
   a microsecond apart. *)

TicksPerUs == 2  \* ticks per microsecond
MaxPulses == 3   \* a train has at most MaxPulses pulses

\* pulses are up to 1 us long and up to 1 us more than two pads apart
Widths == 1..TicksPerUs
MaxGapTicks == (2 * GatePadUs + 1) * TicksPerUs
Gaps == 1..MaxGapTicks

\* the k-th TX timestamp of the train with pulse widths ws and gaps gs
RECURSIVE TimeAt(_, _, _)
TimeAt(ws, gs, k) ==
    IF k <= 1 THEN 0
    ELSE TimeAt(ws, gs, k - 1) + (IF k % 2 = 0 THEN ws[k \div 2] ELSE gs[(k - 1) \div 2])

TrainTicks(ws, gs) ==
    Arrays([k \in 1..(2 * Len(ws)) |-> TimeAt(ws, gs, k)],
           [k \in 1..(2 * Len(ws)) |-> IF k % 2 = 1 THEN One ELSE Zero], <<>>)

\* tx_gate_on = pulse_starts - 1 and tx_gate_off = pulse_ends + 1, in ticks
GateOn(a) == Shift(PulseStarts(a.tx_t, a.tx_p), 0 - GatePadUs * TicksPerUs)
GateOff(a) == Shift(PulseEnds(a.tx_t, a.tx_p), GatePadUs * TicksPerUs)

\* a validated sequence, and the call with its padded pulse windows
InitMerge ==
    /\ \E n \in 0..MaxPulses :
            \E ws \in [1..n -> Widths], gs \in [1..(n - 1) -> Gaps] :
                /\ arr = TrainTicks(ws, gs)
                /\ Validate(arr.tx_t, arr.tx_p, arr.rx, arr.imag) = "ok"
    /\ call = [fn |-> "_merge_overlapping_ranges", returned |-> FALSE,
               starts |-> GateOn(arr), ends |-> GateOff(arr)]
    /\ seq = Stored
    /\ err = "ok"
    /\ other = NoArrays
    /\ eqres = "none"
    /\ NewSpectrometer
    /\ ret = NoRet
    /\ Untouched

CallMerge ==
    /\ call.fn = "_merge_overlapping_ranges" /\ ~call.returned
    /\ ret' = [kind |-> "ranges",
               value |-> merge_overlapping_ranges(call.starts, call.ends)]
    /\ call' = [call EXCEPT !.returned = TRUE]
    /\ UNCHANGED <<arr, seq, err, other, eqres, socket, flo, log, board, files>>

NextMerge == CallMerge

SpecMerge == InitMerge /\ [][NextMerge]_vars

-----------------------------------------------------------------------------
(* Claims about _merge_overlapping_ranges *)

Merged == call.fn = "_merge_overlapping_ranges" /\ call.returned

\* the half-tick positions that lie in one of the ranges [starts[i], ends[i]]
Covered(starts, ends) ==
    {x \in (2 * (0 - GatePadUs * TicksPerUs) - 1)..
            (2 * (MaxPulses * (TicksPerUs + MaxGapTicks) + GatePadUs * TicksPerUs) + 1) :
        \E i \in 1..Len(starts) : 2 * starts[i] <= x /\ x <= 2 * ends[i]}

Odds(a) == [k \in 1..(Len(a) \div 2) |-> a[2 * k - 1]]
Evens(a) == [k \in 1..(Len(a) \div 2) |-> a[2 * k]]

\* C16: the result is a list of (start, end) pairs with start < end, each
\* pair ending before the next starts, that covers exactly the time points
\* the given ranges cover
C16_MergeCoverage ==
    Merged =>
        LET out == ret.value
        IN  /\ Len(out) % 2 = 0
            /\ \A k \in 1..(Len(out) \div 2) : out[2 * k - 1] < out[2 * k]
            /\ \A k \in 1..(Len(out) \div 2 - 1) : out[2 * k] < out[2 * k + 1]
            /\ Covered(Odds(out), Evens(out)) = Covered(call.starts, call.ends)

\* three ranges have been merged into two
C16_Witness ==
    Merged /\ Len(call.starts) = 3 /\ Len(ret.value) = 4

\* the gaps between consecutive ranges of the result
OutGaps(out) == {out[2 * k + 1] - out[2 * k] : k \in 1..(Len(out) \div 2 - 1)}

\* the given ranges that neither overlap nor touch the range after them
Breaks(starts, ends) == {i \in 1..(Len(starts) - 1) : ends[i] < starts[i + 1]}

\* as few ranges as the given ranges allow
Minimal(out) ==
    Len(out) \div 2 =
        IF Len(call.starts) = 0 THEN 0
        ELSE Cardinality(Breaks(call.starts, call.ends)) + 1

\* C17 as stated: consecutive ranges of the result are at least the guard
\* time of 1 us apart, and the result is minimal
C17_AsStated ==
    Merged =>
        /\ \A g \in OutGaps(ret.value) : g >= GuardUs * TicksPerUs
        /\ Minimal(ret.value)

\* C17: consecutive ranges of the result are more than 0 apart (at least 1 us
\* when every given timestamp is a whole number of microseconds), and the
\* result is minimal: no two of its ranges overlap or touch
C17_GapPositive ==
    Merged =>
        /\ \A g \in OutGaps(ret.value) : g > 0
        /\ (\A k \in 1..Len(arr.tx_t) : arr.tx_t[k] % TicksPerUs = 0) =>
                \A g \in OutGaps(ret.value) : g >= GuardUs * TicksPerUs
        /\ Minimal(ret.value)

\* two ranges of the result are one tick apart, and two given ranges that
\* touched have been merged
C17_Witness ==
    /\ Merged
    /\ 1 \in OutGaps(ret.value)
    /\ \E i \in 1..(Len(call.starts) - 1) : call.ends[i] = call.starts[i + 1]

-----------------------------------------------------------------------------
(* _merge_overlapping_ranges called with any ranges: up to MaxPulses ranges
   with whole-numbered bounds in 0..MaxPoint, each end above its start, in
   any order, overlapping and nested ones included. *)

MaxPoint == 4    \* the bounds of the ranges are drawn from 0..MaxPoint

InitMergeAny ==
    /\ \E n \in 0..MaxPulses :
            \E starts \in [1..n -> 0..MaxPoint], ends \in [1..n -> 0..MaxPoint] :
                /\ \A i \in 1..n : ends[i] > starts[i]
                /\ call = [fn |-> "_merge_overlapping_ranges", returned |-> FALSE,
                           starts |-> starts, ends |-> ends]
    /\ arr = NoArrays
    /\ seq = NoSeq
    /\ err = "ok"
    /\ other = NoArrays
    /\ eqres = "none"
    /\ NewSpectrometer
    /\ ret = NoRet
    /\ Untouched

SpecMergeAny == InitMergeAny /\ [][NextMerge]_vars

\* the ranges as (start, end) pairs, in the given order
Pairs(starts, ends) == [i \in 1..Len(starts) |-> <<starts[i], ends[i]>>]

\* the pairs sorted by their start
RECURSIVE InsertByStart(_, _)
InsertByStart(a, x) ==
    IF a = <<>> THEN <<x>>
    ELSE IF x[1] <= Head(a)[1] THEN <<x>> \o a
    ELSE <<Head(a)>> \o InsertByStart(Tail(a), x)
RECURSIVE SortedByStart(_)
SortedByStart(a) ==
    IF a = <<>> THEN <<>> ELSE InsertByStart(SortedByStart(Tail(a)), Head(a))

\* the sweep over the sorted pairs: a pair that starts at or before the end of
\* the current range extends it, any other pair opens a new range
RECURSIVE Sweep(_, _)
Sweep(out, rest) ==
    IF rest = <<>> THEN out
    ELSE LET next == Head(rest)
             current == out[Len(out)]
         IN  IF out # <<>> /\ next[1] <= current[2]
             THEN Sweep([out EXCEPT ![Len(out)] =
                            <<current[1], IF next[2] > current[2] THEN next[2] ELSE current[2]>>],
                        Tail(rest))
             ELSE Sweep(Append(out, next), Tail(rest))

\* the standard interval merge, flattened as start, end, start, end, ...
StandardMerge(starts, ends) ==
    LET merged == Sweep(<<>>, SortedByStart(Pairs(starts, ends)))
    IN  [k \in 1..(2 * Len(merged)) |-> merged[(k + 1) \div 2][2 - (k % 2)]]

\* C26: for index-paired ranges given in any order, each end above its start,
\* overlapping and nested ones included, _merge_overlapping_ranges returns
\* what the standard interval merge returns (sort by start, merge while the
\* next start is at or before the current end)
C26_StandardMerge ==
    Merged => ret.value = StandardMerge(call.starts, call.ends)

\* ranges given out of order, one nested in another and one apart, have been
\* merged into two
C26_Witness ==
    /\ Merged
    /\ call.starts = <<3, 0, 1>> /\ call.ends = <<4, 2, 2>>
    /\ ret.value = <<0, 2, 3, 4>>

-----------------------------------------------------------------------------
(* Spectrometer.send_sequences: the loop over the given sequences, one
   iteration per step.  The log holds what the execution backend was asked
   to run and the sleeps of the host, in order. *)

MaxSeqs == 3     \* send_sequences is given at most MaxSeqs sequences
MaxWait == 1     \* repetition_time_s is drawn from 0..MaxWait

\* the sequences of the scripts
SendItems == {simple(9, 5, 10000).arr, spin_echo(10, 1000, 50, 10000).arr}

\* no send_sequences call is under way
Idle ==
    IF call.fn = "send_sequences" THEN call.returned \/ call.raised # "none" ELSE TRUE

\* exp.run() of the experiment with the event lists fl
RunEntry(fl) == [op |-> "run", flo |-> fl, s |-> 0]
\* time.sleep(s)
SleepEntry(s) == [op |-> "sleep", flo |-> NoFlo, s |-> s]

\* a new Spectrometer; nothing has been run
InitSends ==
    /\ call = [fn |-> "Spectrometer", raised |-> "none"]
    /\ arr = NoArrays
    /\ seq = NoSeq
    /\ err = "ok"
    /\ other = NoArrays
    /\ eqres = "none"
    /\ NewSpectrometer
    /\ ret = NoRet
    /\ Untouched

\* send_sequences(sequences, repetition_time_s) is entered: fids = [].  The
\* sequences are given as a list (sized) or as any other iterable, a
\* generator for one (not sized).  One call per behaviour gets as far as the
\* backend, so that the log stays bounded.
CallSendSequences ==
    /\ Idle /\ log = <<>>
    /\ \E n \in 0..MaxSeqs :
            \E items \in [1..n -> SendItems], sized \in BOOLEAN, s \in 0..MaxWait :
                call' = [fn |-> "send_sequences", sequences |-> items, sized |-> sized,
                         repetition_time_s |-> s, i |-> 0, fids |-> <<>>,
                         raised |-> "none", returned |-> FALSE]
    /\ UNCHANGED <<arr, seq, err, other, eqres, socket, flo, ret, log, board, files>>

\* one iteration of the loop: len(sequences) for the log message, then
\* send_sequence(sequence) (ConnectionError without a socket; otherwise the
\* experiment is set up and run, which fails on a closed socket and can time
\* out on an open one), fids.append(data), time.sleep(repetition_time_s)
SendsIteration ==
    /\ call.fn = "send_sequences" /\ ~Idle /\ call.i < Len(call.sequences)
    /\ LET sequence == call.sequences[call.i + 1]
           fl == Flodict(sequence.tx_t, sequence.tx_p, sequence.rx)
       IN  \/ /\ ~call.sized
              /\ call' = [call EXCEPT !.raised = "TypeError"]
              /\ UNCHANGED <<flo, log>>
           \/ /\ call.sized /\ ~Truthy(socket)
              /\ call' = [call EXCEPT !.raised = "ConnectionError"]
              /\ UNCHANGED <<flo, log>>
           \/ /\ call.sized /\ Truthy(socket)
              /\ flo' = fl
              /\ \/ /\ socket = "open"
                    /\ log' = log \o <<RunEntry(fl), SleepEntry(call.repetition_time_s)>>
                    /\ call' = [call EXCEPT !.i = @ + 1,
                                            !.fids = Append(@, [rx0 |-> Len(log) + 1])]
                 \/ /\ log' = Append(log, RunEntry(fl))
                    /\ call' = [call EXCEPT !.raised = "OSError"]
    /\ UNCHANGED <<arr, seq, err, other, eqres, socket, ret, board, files>>

\* the loop is over: return fids
SendsReturn ==
    /\ call.fn = "send_sequences" /\ ~Idle /\ call.i = Len(call.sequences)
    /\ ret' = [kind |-> "fids", value |-> call.fids]
    /\ call' = [call EXCEPT !.returned = TRUE]
    /\ UNCHANGED <<arr, seq, err, other, eqres, socket, flo, log, board, files>>

NextSends ==
    \/ Idle /\ Connect
    \/ Idle /\ Disconnect
    \/ CallSendSequences
    \/ SendsIteration
    \/ SendsReturn

SpecSends == InitSends /\ [][NextSends]_vars

\* the positions of the runs in the log
RunsAt == Nonzero({j \in 1..Len(log) : log[j].op = "run"})

\* the runs so far are those of the first given sequences, in input order,
\* each once
SentInOrder ==
    /\ Len(RunsAt) <= Len(call.sequences)
    /\ \A k \in 1..Len(RunsAt) :
            LET sequence == call.sequences[k]
            IN  log[RunsAt[k]].flo = Flodict(sequence.tx_t, sequence.tx_p, sequence.rx)

\* between two consecutive runs the host has slept for repetition_time_s
WaitedBetween ==
    \A k \in 1..(Len(RunsAt) - 1) :
        \E j \in (RunsAt[k] + 1)..(RunsAt[k + 1] - 1) :
            log[j] = SleepEntry(call.repetition_time_s)

\* the returned list holds the data of the k-th run at position k, one for
\* each given sequence
ResultsInOrder ==
    /\ ret.kind = "fids"
    /\ Len(ret.value) = Len(call.sequences)
    /\ Len(RunsAt) = Len(call.sequences)
    /\ \A k \in 1..Len(ret.value) : ret.value[k].rx0 = RunsAt[k]

\* the error of a failed send has come out of the call, and the failed send
\* was the last
SendFailed ==
    /\ call.raised \in {"ConnectionError", "OSError"}
    /\ Len(RunsAt) <= call.i + 1

\* C21: send_sequences sends the given sequences one at a time in input
\* order, each once, sleeps repetition_time_s between consecutive sends and
\* returns one result per sequence in input order; it ends without that list
\* only when a send failed, with the error of that send and nothing sent after
C21_SendSequences ==
    call.fn = "send_sequences" =>
        /\ SentInOrder
        /\ WaitedBetween
        /\ call.returned => ResultsInOrder
        /\ call.raised # "none" => SendFailed

-----------------------------------------------------------------------------
(* Server: the board is reached with one SSH connection per method; every
   remote command is noted in call.commands with the number of marcos_server
   processes that were running when it was issued.  No one else acts on the
   board, a started server keeps running until it is killed, and pkill has
   ended the processes it signals before the next connection issues a
   command. *)

\* the values of red_pitaya_model
Models == {"rp-122", "rp-125"}

\* the boards a Server object can meet: a standard RedPitaya image or an
\* Ocra image, with or without the server binary, a bitstream and the
\* device tree overlay; a server can only be running where it is installed
Boards ==
    {b \in [processes : 0..1, installed : BOOLEAN, image : {"redpitaya", "ocra"},
            bitstream : {"none"} \cup Models, overlay : BOOLEAN] :
        b.processes > 0 => b.installed}

\* a remote command, issued while b.processes server processes were running
Cmd(name, b) == [cmd |-> name, processes |-> b.processes]

\* an is_running that never sees a process
is_running_never(b) == FALSE

\* Server.is_running: pgrep marcos prints something
is_running(b) == b.processes > 0

\* Server.stop: pkill only if is_running(), otherwise a warning
stop(b) ==
    IF is_running(b)
    THEN [board |-> [b EXCEPT !.processes = 0],
          commands |-> <<Cmd("pgrep marcos", b), Cmd("pkill marcos_server", b)>>]
    ELSE [board |-> b, commands |-> <<Cmd("pgrep marcos", b)>>]

\* if self.is_running(): self.stop(), the opening of start, setup and
\* flash_fpga
StopRunning(b) ==
    IF is_running(b)
    THEN [board |-> stop(b).board,
          commands |-> <<Cmd("pgrep marcos", b)>> \o stop(b).commands]
    ELSE [board |-> b, commands |-> <<Cmd("pgrep marcos", b)>>]

\* Server.start: ./marcos_server is launched in the background; where the
\* binary is missing the shell starts nothing
start(b) ==
    LET pre == StopRunning(b)
    IN  [board |-> [pre.board EXCEPT
                        !.processes = IF pre.board.installed THEN @ + 1 ELSE @],
         commands |-> Append(pre.commands, Cmd("nohup ./marcos_server", pre.board))]

\* Server.setup: the clock is set, the sources are transferred, built and
\* the binary is copied to the home directory
setup(b) ==
    LET pre == StopRunning(b)
    IN  [board |-> [pre.board EXCEPT !.installed = TRUE],
         commands |-> pre.commands \o
            [k \in 1..7 |->
                Cmd(<<"date", "put marcos_server.zip", "unzip", "mkdir", "cmake",
                      "make", "cp marcos_server">>[k], pre.board)]]

\* Server.flash_fpga: the bitstream is written to /dev/xdevcfg on a standard
\* image, or loaded through a device tree overlay on an Ocra image
flash_fpga(b, red_pitaya_model) ==
    LET pre == StopRunning(b)
        names ==
            IF pre.board.image = "redpitaya"
            THEN <<"[ -f version.txt ]", "put marcos_fpga.bit", "cat > /dev/xdevcfg",
                   "rm marcos_fpga.bit">>
            ELSE <<"[ -f version.txt ]", "put marcos_fpga.bit.bin", "put marcos_fpga.dtbo",
                   "[ -d overlays/full ]">>
                 \o (IF pre.board.overlay THEN <<"rmdir overlays/full">> ELSE <<>>)
                 \o <<"echo 0 > flags", "mkdir overlays/full", "echo > overlays/full/path">>
    IN  [board |-> [pre.board EXCEPT
                        !.bitstream = red_pitaya_model,
                        !.overlay = IF pre.board.image = "ocra" THEN TRUE ELSE @],
         commands |-> pre.commands \o [k \in 1..Len(names) |-> Cmd(names[k], pre.board)]]

\* a Server object for a board in any of its states
InitServer ==
    /\ board \in Boards
    /\ call = [fn |-> "Server", before |-> board, commands |-> <<>>]
    /\ arr = NoArrays
    /\ seq = NoSeq
    /\ err = "ok"
    /\ other = NoArrays
    /\ eqres = "none"
    /\ NewSpectrometer
    /\ ret = NoRet
    /\ log = <<>>
    /\ files = {}

ServerStart ==
    /\ board' = start(board).board
    /\ call' = [fn |-> "start", before |-> board, commands |-> start(board).commands]
    /\ UNCHANGED <<arr, seq, err, other, eqres, socket, flo, ret, log, files>>

ServerStop ==
    /\ board' = stop(board).board
    /\ call' = [fn |-> "stop", before |-> board, commands |-> stop(board).commands]
    /\ UNCHANGED <<arr, seq, err, other, eqres, socket, flo, ret, log, files>>

ServerSetup ==
    /\ board' = setup(board).board
    /\ call' = [fn |-> "setup", before |-> board, commands |-> setup(board).commands]
    /\ UNCHANGED <<arr, seq, err, other, eqres, socket, flo, ret, log, files>>

ServerFlashFpga ==
    /\ \E red_pitaya_model \in Models :
            /\ board' = flash_fpga(board, red_pitaya_model).board
            /\ call' = [fn |-> "flash_fpga", before |-> board,
                        commands |-> flash_fpga(board, red_pitaya_model).commands]
    /\ UNCHANGED <<arr, seq, err, other, eqres, socket, flo, ret, log, files>>

NextServer == ServerStart \/ ServerStop \/ ServerSetup \/ ServerFlashFpga

SpecServer == InitServer /\ [][NextServer]_vars

\* the commands that only look at the board
Probes == {"pgrep marcos", "[ -f version.txt ]", "[ -d overlays/full ]"}

\* the positions in call.commands of the command named name
IssuedAt(name) == {k \in 1..Len(call.commands) : call.commands[k].cmd = name}

-----------------------------------------------------------------------------
(* FID1D.to_file: the file system is the set of the files of one directory,
   each a name with its content.  A path is the pair of stem and suffix that
   pathlib makes of its name. *)

MaxFiles == 4    \* to_file is called while fewer than MaxFiles files exist

\* str(i)
RECURSIVE Str(_)
Str(n) ==
    IF n < 10 THEN <<"0", "1", "2", "3", "4", "5", "6", "7", "8", "9">>[n + 1]
    ELSE Str(n \div 10) \o Str(n % 10)

\* Path.name
Name(path) == path.stem \o path.suffix

\* the paths to_file is asked to write: without a suffix, with .fid, with
\* another suffix, a stem that ends in a digit, and the hidden file .fid,
\* whose suffix is empty
Requests ==
    {[stem |-> "a", suffix |-> ""], [stem |-> "a", suffix |-> ".fid"],
     [stem |-> "a", suffix |-> ".txt"], [stem |-> "a1", suffix |-> ".fid"],
     [stem |-> "a1", suffix |-> ""], [stem |-> ".fid", suffix |-> ""]}

\* the names of the files that can be there before the first call
OldNames ==
    {"a", "a.fid", "a1.fid", "a2.fid", "a11.fid", "a.txt", "a.txt.fid", "a.txt1.fid",
     ".fid", ".fid.fid"}

\* Path.exists
Exists(name, fs) == \E f \in fs : f.name = name

\* if file.suffix != ".fid": file = Path(f"{file}.fid")
WithFid(path) ==
    IF path.suffix # ".fid" THEN [stem |-> Name(path), suffix |-> ".fid"] ELSE path

\* Path(file.parent / f"{file.stem}{i}{file.suffix}")
Numbered(path, i) == [stem |-> path.stem \o Str(i), suffix |-> path.suffix]

\* a search that stops at the first numbered name
CandidateFirst(path, i, fs) == [path |-> Numbered(path, i), i |-> i]

\* the while loop: the first numbered name from i on that does not exist
RECURSIVE Candidate(_, _, _)
Candidate(path, i, fs) ==
    IF Exists(Name(Numbered(path, i)), fs) THEN Candidate(path, i + 1, fs)
    ELSE [path |-> Numbered(path, i), i |-> i]

\* the path to_file writes, with the number it carries (0 for none)
Target(request, fs) ==
    LET file == WithFid(request)
    IN  IF Exists(Name(file), fs) THEN Candidate(file, 1, fs)
        ELSE [path |-> file, i |-> 0]

\* ng.pipe.write(filename, dic, data): nmrglue refuses to write over an
\* existing file unless asked to
Write(name, content, fs) ==
    IF Exists(name, fs) THEN [raised |-> "OSError", files |-> fs]
    ELSE [raised |-> "none", files |-> fs \cup {[name |-> name, content |-> content]}]

\* a directory with some files written earlier
InitToFile ==
    /\ \E names \in SUBSET OldNames :
            /\ Cardinality(names) < MaxFiles
            /\ files = {[name |-> n, content |-> "old"] : n \in names}
    /\ call = [fn |-> "FID1D", raised |-> "none"]
    /\ arr = NoArrays
    /\ seq = NoSeq
    /\ err = "ok"
    /\ other = NoArrays
    /\ eqres = "none"
    /\ NewSpectrometer
    /\ ret = NoRet
    /\ log = <<>>
    /\ board = NoBoard

\* FID1D.to_file(file)
ToFile ==
    /\ Cardinality(files) < MaxFiles
    /\ \E request \in Requests :
            LET target == Target(request, files)
                written == Write(Name(target.path), "new", files)
            IN  /\ files' = written.files
                /\ call' = [fn |-> "to_file", raised |-> written.raised,
                            request |-> request, target |-> target.path, i |-> target.i,
                            before |-> files]
    /\ UNCHANGED <<arr, seq, err, other, eqres, socket, flo, ret, log, board>>

NextToFile == ToFile

SpecToFile == InitToFile /\ [][NextToFile]_vars

\* the requested name, with .fid appended unless it ends in .fid
Wanted(request) ==
    IF request.suffix = ".fid" THEN request
    ELSE [stem |-> request.stem \o request.suffix, suffix |-> ".fid"]

\* C22: to_file writes a path that did not exist, and every file that
\* existed is still there with its content.  The path is the requested name
\* (with .fid appended unless the suffix is .fid) if that does not exist, else
\* <stem><i>.fid for the smallest i >= 1 that does not exist, which is found
\* after at most as many steps as there are files
C22_NeverOverwrites ==
    call.fn = "to_file" =>
        LET wanted == Wanted(call.request)
            name == Name(call.target)
        IN  /\ call.raised = "none"
            /\ ~Exists(name, call.before)
            /\ call.before \subseteq files
            /\ files = call.before \cup {[name |-> name, content |-> "new"]}
            /\ IF ~Exists(Name(wanted), call.before)
               THEN name = Name(wanted) /\ call.i = 0
               ELSE /\ call.i >= 1 /\ call.i <= Cardinality(call.before)
                    /\ name = wanted.stem \o Str(call.i) \o ".fid"
                    /\ \A j \in 1..(call.i - 1) :
                            Exists(wanted.stem \o Str(j) \o ".fid", call.before)

\* a.fid and a1.fid existed, and a2.fid has been written
C22_Witness ==
    /\ call.fn = "to_file" /\ call.request = [stem |-> "a", suffix |-> ""]
    /\ Exists("a.fid", call.before) /\ Exists("a1.fid", call.before)
    /\ Name(call.target) = "a2.fid" /\ call.i = 2
    /\ [name |-> "a2.fid", content |-> "new"] \in files

-----------------------------------------------------------------------------
(* FID1D: the conversion to the NMRPipe dictionary and back.  Frequencies
   are whole numbers of Hz; the quotients of the dictionary are kept as exact
   fractions (the floats of the code round in addition).  A timestamp is the
   hour its fields show, its microseconds and its tzinfo. *)

MaxHour == 2     \* timestamps show the hours 0..MaxHour

\* the time zones of a timestamp: aware in UTC, naive, aware one hour ahead
Zones == {"UTC", "naive", "+01:00"}
Timestamps == [hour : 0..MaxHour, microsecond : {0, 500000}, tzinfo : Zones]

\* pulse is a str or a Path
PulseNames == [type : {"str", "Path"}, text : {"simple.seq"}]

\* the FID1D objects __init__ accepts: complex data of one dimension and
\* texts within their lengths
Fids ==
    [data : {<<ImagUnit>>, <<One, ImagUnit>>},
     spectral_width : {320000},
     carrier_freq : {0, 7},
     observation_freq : {0, 25000000},
     label : {"1H"},
     sample : {"Water"},
     pulse : PulseNames,
     spectrometer : {"magnETHical"},
     timestamp : Timestamps]

RECURSIVE Gcd(_, _)
Gcd(a, b) == IF b = 0 THEN a ELSE Gcd(b, a % b)

\* the fraction n / d in lowest terms, d > 0
Frac(n, d) == LET g == Gcd(n, d) IN IF g = 0 THEN <<0, 1>> ELSE <<n \div g, d \div g>>
FracMul(x, y) == Frac(x[1] * y[1], x[2] * y[2])

\* FID1D._get_pipedic: the texts, the fields of the timestamp down to the
\* second, SW, OBS = observation_freq / 1e6 and CAR = carrier_freq / OBS
get_pipedic(self) ==
    IF self.observation_freq = 0
    THEN [raised |-> "ZeroDivisionError"]
    ELSE [raised |-> "none",
          FDTITLE |-> self.sample,
          FDCOMMENT |-> self.pulse.text,
          FDOPERNAME |-> self.spectrometer,
          FDHOURS |-> self.timestamp.hour,
          SW |-> self.spectral_width,
          OBS |-> Frac(self.observation_freq, 1000000),
          CAR |-> Frac(self.carrier_freq * 1000000, self.observation_freq),
          LABEL |-> self.label]

\* FID1D._from_pipe: carrier_freq = CAR * OBS, observation_freq = OBS * 1e6,
\* pulse is the text of FDCOMMENT, the timestamp is built from the fields
\* with tzinfo=UTC
from_pipe(pipe_dict, data) ==
    [data |-> data,
     spectral_width |-> Frac(pipe_dict.SW, 1),
     carrier_freq |-> FracMul(pipe_dict.CAR, pipe_dict.OBS),
     observation_freq |-> FracMul(pipe_dict.OBS, Frac(1000000, 1)),
     label |-> pipe_dict.LABEL,
     sample |-> pipe_dict.FDTITLE,
     pulse |-> [type |-> "str", text |-> pipe_dict.FDCOMMENT],
     spectrometer |-> pipe_dict.FDOPERNAME,
     timestamp |-> [hour |-> pipe_dict.FDHOURS, microsecond |-> 0, tzinfo |-> "UTC"]]

\* datetime == datetime: a naive and an aware one are never equal, two
\* aware ones are equal when they name the same instant
UtcHour(t) == t.hour - (IF t.tzinfo = "+01:00" THEN 1 ELSE 0)
TimestampEq(t, u) ==
    IF (t.tzinfo = "naive") # (u.tzinfo = "naive") THEN FALSE
    ELSE IF t.tzinfo = "naive" THEN t.hour = u.hour /\ t.microsecond = u.microsecond
    ELSE UtcHour(t) = UtcHour(u) /\ t.microsecond = u.microsecond

\* FID1D.__eq__ of an object made by __init__ and one read back
fid_eq(self, oth) ==
    IF /\ Frac(self.carrier_freq, 1) = oth.carrier_freq
       /\ self.label = oth.label
       /\ Frac(self.observation_freq, 1) = oth.observation_freq
       /\ Frac(self.spectral_width, 1) = oth.spectral_width
       /\ self.sample = oth.sample
       /\ self.pulse = oth.pulse
       /\ self.spectrometer = oth.spectrometer
       /\ TimestampEq(self.timestamp, oth.timestamp)
       /\ self.data = oth.data
    THEN "True" ELSE "False"

\* an FID1D constructed through __init__
InitRoundTrip ==
    /\ \E fid \in Fids : call = [fn |-> "FID1D", raised |-> "none", fid |-> fid]
    /\ arr = NoArrays
    /\ seq = NoSeq
    /\ err = "ok"
    /\ other = NoArrays
    /\ eqres = "none"
    /\ NewSpectrometer
    /\ ret = NoRet
    /\ Untouched

\* FID1D._from_pipe(fid._get_pipedic(), fid.data) == fid
RoundTrip ==
    /\ call.fn = "FID1D"
    /\ LET fid == call.fid
           dic == get_pipedic(fid)
       IN  IF dic.raised # "none"
           THEN /\ call' = [fn |-> "round_trip", raised |-> dic.raised, fid |-> fid]
                /\ UNCHANGED <<ret, eqres>>
           ELSE /\ call' = [fn |-> "round_trip", raised |-> "none", fid |-> fid]
                /\ ret' = [kind |-> "FID1D", value |-> from_pipe(dic, fid.data)]
                /\ eqres' = fid_eq(fid, from_pipe(dic, fid.data))
    /\ UNCHANGED <<arr, seq, err, other, socket, flo, log, board, files>>

NextRoundTrip == RoundTrip

SpecRoundTrip == InitRoundTrip /\ [][NextRoundTrip]_vars

\* C23: every FID1D made by __init__ is converted to the dictionary and read
\* back without an error, and what is read back equals the original
C23_RoundTrip ==
    call.fn = "round_trip" => call.raised = "none" /\ eqres = "True"

====
